---- MODULE Spec2Model ----
(***************************************************************************)
(* jpath / jxpath / jdson: path expressions over JSON-like trees.          *)
(*                                                                         *)
(* Strings are sequences of one-character strings, so that splitting on    *)
(* the separator, the subscript regular expression, quote stripping and    *)
(* integer parsing are computed character by character.  A Python value    *)
(* is a record of one uniform shape (kind, n, s, l, d); a dict is a        *)
(* function from keys (character sequences) to values.                     *)
(***************************************************************************)
EXTENDS Integers, Sequences, FiniteSets, TLC

VARIABLES fn, source, path, keytypes, argnull, argsep,
          null, sep, elems, idx, obj, pc, result, raised

vars == <<fn, source, path, keytypes, argnull, argsep,
          null, sep, elems, idx, obj, pc, result, raised>>

inputs == <<fn, source, path, keytypes, argnull, argsep>>

(***************************************************************************)
(* Characters                                                              *)
(***************************************************************************)
DigitChars == {"0", "1", "2", "3", "4", "5", "6", "7", "8", "9"}

LetterChars == {"a", "b", "c", "d", "e", "f", "g", "h", "i", "j", "k", "l", "m",
                "n", "o", "p", "q", "r", "s", "t", "u", "v", "w", "x", "y", "z"}

\* \w of the regular expressions: letters, digits and the underscore
WordChars == LetterChars \cup DigitChars \cup {"_"}

\* \s of the regular expressions
SpaceChars == {" "}

QuoteChars == {"'", "\""}

BracketChars == {"[", "]"}

DigitVal(c) ==
    CASE c = "0" -> 0 [] c = "1" -> 1 [] c = "2" -> 2 [] c = "3" -> 3
      [] c = "4" -> 4 [] c = "5" -> 5 [] c = "6" -> 6 [] c = "7" -> 7
      [] c = "8" -> 8 [] c = "9" -> 9

(***************************************************************************)
(* Python values                                                           *)
(***************************************************************************)
Mk(kind, n, s, l, d) == [kind |-> kind, n |-> n, s |-> s, l |-> l, d |-> d]

IntV(n) == Mk("int", n, <<>>, <<>>, <<>>)

StrV(s) == Mk("str", 0, s, <<>>, <<>>)

NoneV == Mk("none", 0, <<>>, <<>>, <<>>)

BoolV(b) == Mk("bool", IF b THEN 1 ELSE 0, <<>>, <<>>, <<>>)

ListV(l) == Mk("list", 0, <<>>, l, <<>>)

DictV(d) == Mk("dict", 0, <<>>, <<>>, d)

\* isinstance(obj, (list, dict))
IsContainer(v) == v.kind \in {"list", "dict"}

\* Python ==: structural, with bool an int (True == 1)
RECURSIVE PyEq(_, _)
PyEq(a, b) ==
    IF a.kind \in {"int", "bool"} /\ b.kind \in {"int", "bool"} THEN a.n = b.n
    ELSE IF a.kind # b.kind THEN FALSE
    ELSE IF a.kind = "list"
         THEN /\ Len(a.l) = Len(b.l)
              /\ \A i \in 1..Len(a.l) : PyEq(a.l[i], b.l[i])
    ELSE IF a.kind = "dict"
         THEN /\ DOMAIN a.d = DOMAIN b.d
              /\ \A k \in DOMAIN a.d : PyEq(a.d[k], b.d[k])
    ELSE a.s = b.s

\* the outcome of an expression: a value, or the exception it raises
Ok(v) == [exc |-> "none", val |-> v]

Raise(e) == [exc |-> e, val |-> NoneV]

\* seq[n] of a Python sequence of length len, negative n counting from the end
SeqPos(n, len) ==
    IF n >= 0 /\ n < len THEN n + 1
    ELSE IF n < 0 /\ n + len >= 0 THEN n + len + 1
    ELSE 0

\* c[key]
GetItem(c, key) ==
    CASE c.kind = "dict" ->
           IF key.kind \in {"list", "dict"} THEN Raise("TypeError")
           ELSE IF key.kind = "str" /\ key.s \in DOMAIN c.d THEN Ok(c.d[key.s])
           ELSE Raise("KeyError")
      [] c.kind = "list" ->
           IF key.kind \notin {"int", "bool"} THEN Raise("TypeError")
           ELSE IF SeqPos(key.n, Len(c.l)) = 0 THEN Raise("IndexError")
           ELSE Ok(c.l[SeqPos(key.n, Len(c.l))])
      [] c.kind = "str" ->
           IF key.kind \notin {"int", "bool"} THEN Raise("TypeError")
           ELSE IF SeqPos(key.n, Len(c.s)) = 0 THEN Raise("IndexError")
           ELSE Ok(StrV(<<c.s[SeqPos(key.n, Len(c.s))]>>))
      [] OTHER -> Raise("TypeError")

(***************************************************************************)
(* Strings: split, int(), the three regular expressions                    *)
(***************************************************************************)
Min(S) == CHOOSE x \in S : \A y \in S : x <= y

\* sep occurs in s at position i
OccursAt(s, sp, i) ==
    /\ i + Len(sp) - 1 <= Len(s)
    /\ SubSeq(s, i, i + Len(sp) - 1) = sp

\* s.split(sp) for a non-empty sp: empty segments are kept
RECURSIVE StrSplit(_, _)
StrSplit(s, sp) ==
    LET occ == {i \in 1..Len(s) : OccursAt(s, sp, i)}
    IN  IF occ = {} THEN <<s>>
        ELSE <<SubSeq(s, 1, Min(occ) - 1)>>
             \o StrSplit(SubSeq(s, Min(occ) + Len(sp), Len(s)), sp)

RECURSIVE DecVal(_)
DecVal(s) ==
    IF s = <<>> THEN 0
    ELSE 10 * DecVal(SubSeq(s, 1, Len(s) - 1)) + DigitVal(s[Len(s)])

\* int(s): an optional sign and decimal digits, ValueError otherwise
\* (the characters of the model hold no blank or underscore next to digits)
PyInt(s) ==
    LET signed == s # <<>> /\ s[1] \in {"-", "+"}
        digits == IF signed THEN Tail(s) ELSE s
    IN  IF digits = <<>> \/ \E i \in 1..Len(digits) : digits[i] \notin DigitChars
        THEN Raise("ValueError")
        ELSE Ok(IntV(IF signed /\ s[1] = "-" THEN 0 - DecVal(digits) ELSE DecVal(digits)))

\* the first position from i on whose character is not in S (Len(e) + 1 if none)
SkipWhile(e, i, S) ==
    Min({j \in i..(Len(e) + 1) : j = Len(e) + 1 \/ e[j] \notin S})

\* what a quoted bracket group may hold:
\*   jpath  (\w+|\d+|\s*)+   any run of word characters and blanks, also none
\*   jdson  (\w+|\d+)+       a non-empty run of word characters
QuotedChars(re) == IF re = "jpath" THEN WordChars \cup SpaceChars ELSE WordChars

QuotedMayBeEmpty(re) == re = "jpath"

\* position of the "]" closing the bracket group [digits], ["..."] or ['...']
\* that starts at i, or 0 when none starts there
GroupEnd(re, e, i) ==
    IF i > Len(e) \/ e[i] # "[" THEN 0
    ELSE LET j == SkipWhile(e, i + 1, DigitChars)
         IN  IF j > i + 1 /\ j <= Len(e) /\ e[j] = "]" THEN j
             ELSE IF i + 1 <= Len(e) /\ e[i + 1] \in QuoteChars
             THEN LET m == SkipWhile(e, i + 2, QuotedChars(re))
                  IN  IF /\ m + 1 <= Len(e)
                         /\ e[m] = e[i + 1]
                         /\ e[m + 1] = "]"
                         /\ (QuotedMayBeEmpty(re) \/ m > i + 2)
                      THEN m + 1
                      ELSE 0
             ELSE 0

\* the end of the longest run of consecutive bracket groups starting at i
RECURSIVE RunEnd(_, _, _)
RunEnd(re, e, i) ==
    LET g == GroupEnd(re, e, i)
    IN  IF g = 0 THEN i - 1 ELSE RunEnd(re, e, g + 1)

\* subscript_re.search(e): the leftmost run of bracket groups, greedy;
\* found = FALSE stands for None, text for .group()
SubscriptSearch(re, e) ==
    LET starts == {i \in 1..Len(e) : GroupEnd(re, e, i) > 0}
    IN  IF starts = {} THEN [found |-> FALSE, text |-> <<>>]
        ELSE [found |-> TRUE,
              text |-> SubSeq(e, Min(starts), RunEnd(re, e, Min(starts)))]

\* subscript_re.sub("", e): every run of bracket groups removed
RECURSIVE SubscriptSubFrom(_, _, _)
SubscriptSubFrom(re, e, i) ==
    IF i > Len(e) THEN <<>>
    ELSE IF GroupEnd(re, e, i) > 0 THEN SubscriptSubFrom(re, e, RunEnd(re, e, i) + 1)
    ELSE <<e[i]>> \o SubscriptSubFrom(re, e, i + 1)

SubscriptSub(re, e) == SubscriptSubFrom(re, e, 1)

\* [ i for i in brackets_re.split(s) if i ]
RECURSIVE BracketsSplit(_)
BracketsSplit(s) ==
    IF s = <<>> THEN <<>>
    ELSE IF s[1] \in BracketChars THEN BracketsSplit(Tail(s))
    ELSE LET j == SkipWhile(s, 1, {c \in {s[i] : i \in 1..Len(s)} : c \notin BracketChars})
         IN  <<SubSeq(s, 1, j - 1)>> \o BracketsSplit(SubSeq(s, j, Len(s)))

\* apex_re.sub("", s): a quote at the very start and a quote at the very end go
ApexSub(s) ==
    LET a == IF s # <<>> /\ s[1] \in QuoteChars THEN Tail(s) ELSE s
    IN  IF a # <<>> /\ a[Len(a)] \in QuoteChars THEN SubSeq(a, 1, Len(a) - 1) ELSE a

\* try: sc = int(subscript) / except: sc = apex_re.sub("", str(subscript))
SubscriptKey(subscript) ==
    IF PyInt(subscript).exc = "none" THEN PyInt(subscript).val
    ELSE StrV(ApexSub(subscript))

(***************************************************************************)
(* jpath                                                                   *)
(***************************************************************************)
\* the state of the loop body: the cursor obj and the exception in flight
Step(e, o) == [exc |-> e, val |-> o]

\* nil = {"result" : "error"}
Nil == DictV(<<"r", "e", "s", "u", "l", "t">> :> StrV(<<"e", "r", "r", "o", "r">>))

Arrow == <<"-", ">">>

Slash == <<"/">>

DefaultKeytypes == <<"str", "int">>

\* (0.0.1) the root name of an element with subscripts
JpathRoot(src, nul, o, root) ==
    IF root = <<>>
    THEN Step("none", IF PyEq(o, nul) THEN src ELSE o)
    ELSE LET r == GetItem(IF PyEq(o, nul) THEN src ELSE o, StrV(root))
         IN  IF r.exc = "none" THEN Step("none", r.val) ELSE Step(r.exc, o)

\* (0.1) for subscript in scs
RECURSIVE JpathSubscriptLoop(_, _, _, _)
JpathSubscriptLoop(src, nul, st, scs) ==
    IF st.exc # "none" \/ scs = <<>> THEN st
    ELSE IF ~IsContainer(st.val) THEN Step("TypeError", st.val)
    ELSE LET r == GetItem(IF ~PyEq(st.val, nul) THEN st.val ELSE src,
                          SubscriptKey(Head(scs)))
         IN  IF r.exc # "none" THEN Step(r.exc, st.val)
             ELSE JpathSubscriptLoop(src, nul, Step("none", r.val), Tail(scs))

\* (0.0) an element in which subscript_re finds subscripts
JpathSubscripts(src, nul, o, elem) ==
    JpathSubscriptLoop(src, nul,
                       JpathRoot(src, nul, o, SubscriptSub("jpath", elem)),
                       BracketsSplit(SubscriptSearch("jpath", elem).text))

\* k(elem) for k in keytypes
KeyOf(k, elem) == IF k = "str" THEN Ok(StrV(elem)) ELSE PyInt(elem)

\* one turn of  for k in keytypes: try ... except (IndexError, KeyError) ... except: pass
JpathTryKey(src, nul, o, k, elem) ==
    LET key == KeyOf(k, elem)
        r   == GetItem(IF ~PyEq(o, nul) THEN o ELSE src, key.val)
    IN  IF key.exc # "none" THEN o
        ELSE IF r.exc = "none" THEN r.val
        ELSE IF r.exc \in {"IndexError", "KeyError"} THEN nul
        ELSE o

RECURSIVE JpathKeyLoop(_, _, _, _, _)
JpathKeyLoop(src, nul, o, kts, elem) ==
    IF kts = <<>> THEN o
    ELSE JpathKeyLoop(src, nul, JpathTryKey(src, nul, o, Head(kts), elem), Tail(kts), elem)

\* (0.2) an element without subscripts
JpathName(src, nul, o, kts, elem) ==
    IF ~IsContainer(o) THEN Step("TypeError", o)
    ELSE Step("none",
              JpathKeyLoop(src, nul, o, IF kts = <<>> THEN DefaultKeytypes ELSE kts, elem))

\* the body of  for elem in elems
JpathElem(src, nul, o, kts, elem) ==
    IF elem = <<>> THEN Step("none", o)
    ELSE IF SubscriptSearch("jpath", elem).found THEN JpathSubscripts(src, nul, o, elem)
    ELSE JpathName(src, nul, o, kts, elem)

\* except (IndexError, KeyError, TypeError): obj = null / except BaseException: pass
JpathExcept(nul, st) ==
    IF st.exc \in {"IndexError", "KeyError", "TypeError"} THEN nul ELSE st.val

RECURSIVE JpathLoop(_, _, _, _, _)
JpathLoop(src, nul, o, kts, es) ==
    IF es = <<>> THEN o
    ELSE LET st == JpathElem(src, nul, o, kts, Head(es))
         IN  IF st.exc # "none" THEN JpathExcept(nul, st)
             ELSE JpathLoop(src, nul, st.val, kts, Tail(es))

\* the terminal case left out: the empty path is split like any other
IsTerminalNever(p) == FALSE

\* if not path: return source
IsTerminal(p) == p = <<>>

\* jpath(source, path, keytypes, null, sep): what it returns or raises
Jpath(src, p, kts, nul, sp) ==
    IF IsTerminal(p) THEN Ok(src)
    ELSE IF sp = <<>> THEN Raise("ValueError")
    ELSE Ok(JpathLoop(src, nul, nul, kts, StrSplit(p, sp)))

\* jxpath(source, path, keytypes, null): null=nil is passed on, not null
Jxpath(src, p, kts, nul) == Jpath(src, p, kts, Nil, Slash)

(***************************************************************************)
(* jdson                                                                   *)
(***************************************************************************)
DsonRoot(src, nul, o, root) ==
    LET r == IF root = <<>>
             THEN IF PyEq(o, nul) THEN Ok(src) ELSE GetItem(o, StrV(root))
             ELSE IF ~PyEq(o, nul) THEN GetItem(o, StrV(root)) ELSE GetItem(src, o)
    IN  IF r.exc = "none" THEN Step("none", r.val) ELSE Step(r.exc, o)

RECURSIVE DsonSubscriptLoop(_, _, _, _)
DsonSubscriptLoop(src, nul, st, scs) ==
    IF st.exc # "none" \/ scs = <<>> THEN st
    ELSE LET r == GetItem(IF ~PyEq(st.val, nul) THEN st.val ELSE src,
                          SubscriptKey(Head(scs)))
         IN  IF r.exc # "none" THEN Step(r.exc, st.val)
             ELSE DsonSubscriptLoop(src, nul, Step("none", r.val), Tail(scs))

DsonSubscripts(src, nul, o, elem) ==
    DsonSubscriptLoop(src, nul,
                      DsonRoot(src, nul, o, SubscriptSub("jdson", elem)),
                      BracketsSplit(SubscriptSearch("jdson", elem).text))

\* (0.2)  if not typelist:  reads a local that is never bound
DsonName(src, nul, o, kts, elem) == Step("UnboundLocalError", o)

DsonElem(src, nul, o, kts, elem) ==
    IF elem = <<>> THEN Step("none", o)
    ELSE IF SubscriptSearch("jdson", elem).found THEN DsonSubscripts(src, nul, o, elem)
    ELSE DsonName(src, nul, o, kts, elem)

\* except Exception as e: pass
DsonExcept(nul, st) == st.val

RECURSIVE DsonLoop(_, _, _, _, _)
DsonLoop(src, nul, o, kts, es) ==
    IF es = <<>> THEN o
    ELSE LET st == DsonElem(src, nul, o, kts, Head(es))
         IN  IF st.exc # "none" THEN DsonExcept(nul, st)
             ELSE DsonLoop(src, nul, st.val, kts, Tail(es))

\* if not path: return source
DsonIsTerminal(p) == p = <<>>

Jdson(src, p, kts, nul) ==
    IF DsonIsTerminal(p) THEN Ok(src)
    ELSE Ok(DsonLoop(src, nul, nul, kts, StrSplit(p, Arrow)))

(***************************************************************************)
(* The calls that are explored                                            *)
(***************************************************************************)
\* a path holds at most MaxElems elements
MaxElems == 3

\* {"k": 7, "m": [{"k": 8}, "ab"], "0": [5, 6]}
TreeD ==
    DictV(<<"k">> :> IntV(7)
          @@ <<"m">> :> ListV(<<DictV(<<"k">> :> IntV(8)), StrV(<<"a", "b">>)>>)
          @@ <<"0">> :> ListV(<<IntV(5), IntV(6)>>))

\* [{"0": "ab", "k": None}, [7]]
TreeL ==
    ListV(<<DictV(<<"0">> :> StrV(<<"a", "b">>) @@ <<"k">> :> NoneV),
            ListV(<<IntV(7)>>)>>)

\* {"m": {"result": "error"}, "k": True}
TreeN == DictV(<<"m">> :> Nil @@ <<"k">> :> BoolV(TRUE))

\* "ab"
TreeS == StrV(<<"a", "b">>)

Trees == {TreeD, TreeL, TreeN, TreeS}

\* the values a caller passes as null: the default, None, "a", [5, 6]
Nulls == {Nil, NoneV, StrV(<<"a">>), ListV(<<IntV(5), IntV(6)>>)}

Keytypes == {DefaultKeytypes, <<"int", "str">>, <<>>}

\* k  m  0  [0]  ['k']  ["k"]  ['0']  m[0]  m['k']  m["k"]  m[k]  and the empty element
Elems ==
    {<<"k">>, <<"m">>, <<"0">>,
     <<"[", "0", "]">>,
     <<"[", "'", "k", "'", "]">>,
     <<"[", "\"", "k", "\"", "]">>,
     <<"[", "'", "0", "'", "]">>,
     <<"m", "[", "0", "]">>,
     <<"m", "[", "'", "k", "'", "]">>,
     <<"m", "[", "\"", "k", "\"", "]">>,
     <<"m", "[", "k", "]">>,
     <<>>}

\* sp.join(es)
RECURSIVE StrJoin(_, _)
StrJoin(es, sp) ==
    IF es = <<>> THEN <<>>
    ELSE IF Len(es) = 1 THEN es[1]
    ELSE es[1] \o sp \o StrJoin(Tail(es), sp)

\* k  [0]  and the empty element
ShortElems == {<<"k">>, <<"[", "0", "]">>, <<>>}

\* a call of one of the three functions, its path made of elements of E
InitOver(E) ==
    /\ fn \in {"jpath", "jxpath", "jdson"}
    /\ source \in Trees
    /\ \E kn \in (Keytypes \X {Nil}) \cup ({DefaultKeytypes} \X Nulls) :
          /\ keytypes = kn[1]
          /\ argnull = kn[2]
    /\ argsep \in IF fn = "jpath" THEN {Arrow, <<>>}
                  ELSE IF fn = "jxpath" THEN {Slash} ELSE {Arrow}
    /\ \E es \in UNION {[1..n -> E] : n \in 0..MaxElems} :
          path = StrJoin(es, IF argsep = <<>> THEN Arrow ELSE argsep)
    /\ null = argnull
    /\ sep = argsep
    /\ elems = <<>>
    /\ idx = 0
    /\ obj = NoneV
    /\ pc = "call"
    /\ result = NoneV
    /\ raised = "none"

Init == InitOver(Elems)

InitShort == InitOver(ShortElems)

\* jpath(source, path, keytypes, null, sep)
CallJpath ==
    /\ pc = "call" /\ fn = "jpath"
    /\ null' = argnull
    /\ sep' = argsep
    /\ pc' = "jpath"
    /\ UNCHANGED <<inputs, elems, idx, obj, result, raised>>

\* jxpath: return jpath(source, path, keytypes=keytypes, null=nil, sep='/')
CallJxpath ==
    /\ pc = "call" /\ fn = "jxpath"
    /\ null' = Nil
    /\ sep' = Slash
    /\ pc' = "jpath"
    /\ UNCHANGED <<inputs, elems, idx, obj, result, raised>>

\* jdson(source, path, keytypes, null)
CallJdson ==
    /\ pc = "call" /\ fn = "jdson"
    /\ null' = argnull
    /\ sep' = Arrow
    /\ pc' = "jdson"
    /\ UNCHANGED <<inputs, elems, idx, obj, result, raised>>

\* the terminal case, path.split(sep), obj = null
JpathEntry ==
    /\ pc = "jpath"
    /\ IF IsTerminal(path)
       THEN /\ result' = source
            /\ pc' = "done"
            /\ UNCHANGED <<elems, idx, obj, raised>>
       ELSE IF sep = <<>>
       THEN /\ raised' = "ValueError"
            /\ pc' = "done"
            /\ UNCHANGED <<elems, idx, obj, result>>
       ELSE /\ elems' = StrSplit(path, sep)
            /\ idx' = 1
            /\ obj' = null
            /\ pc' = "jpath_loop"
            /\ UNCHANGED <<result, raised>>
    /\ UNCHANGED <<inputs, null, sep>>

\* the effect of one turn of the loop, ended by an exception or not
JpathTurn(st) ==
    /\ IF st.exc = "none"
       THEN /\ obj' = st.val
            /\ idx' = idx + 1
            /\ UNCHANGED <<pc, result>>
       ELSE /\ obj' = JpathExcept(null, st)
            /\ result' = JpathExcept(null, st)
            /\ pc' = "done"
            /\ UNCHANGED idx
    /\ UNCHANGED <<inputs, null, sep, elems, raised>>

\* if not elem: continue
JpathSkipElem ==
    /\ pc = "jpath_loop" /\ idx <= Len(elems)
    /\ elems[idx] = <<>>
    /\ JpathTurn(JpathElem(source, null, obj, keytypes, elems[idx]))

JpathSubscriptElem ==
    /\ pc = "jpath_loop" /\ idx <= Len(elems)
    /\ elems[idx] # <<>>
    /\ SubscriptSearch("jpath", elems[idx]).found
    /\ JpathTurn(JpathElem(source, null, obj, keytypes, elems[idx]))

JpathNameElem ==
    /\ pc = "jpath_loop" /\ idx <= Len(elems)
    /\ elems[idx] # <<>>
    /\ ~SubscriptSearch("jpath", elems[idx]).found
    /\ JpathTurn(JpathElem(source, null, obj, keytypes, elems[idx]))

\* return obj
JpathReturn ==
    /\ pc = "jpath_loop" /\ idx > Len(elems)
    /\ result' = obj
    /\ pc' = "done"
    /\ UNCHANGED <<inputs, null, sep, elems, idx, obj, raised>>

DsonEntry ==
    /\ pc = "jdson"
    /\ IF DsonIsTerminal(path)
       THEN /\ result' = source
            /\ pc' = "done"
            /\ UNCHANGED <<elems, idx, obj>>
       ELSE /\ elems' = StrSplit(path, Arrow)
            /\ idx' = 1
            /\ obj' = null
            /\ pc' = "jdson_loop"
            /\ UNCHANGED result
    /\ UNCHANGED <<inputs, null, sep, raised>>

DsonTurn(st) ==
    /\ IF st.exc = "none"
       THEN /\ obj' = st.val
            /\ idx' = idx + 1
            /\ UNCHANGED <<pc, result>>
       ELSE /\ obj' = DsonExcept(null, st)
            /\ result' = DsonExcept(null, st)
            /\ pc' = "done"
            /\ UNCHANGED idx
    /\ UNCHANGED <<inputs, null, sep, elems, raised>>

DsonSkipElem ==
    /\ pc = "jdson_loop" /\ idx <= Len(elems)
    /\ elems[idx] = <<>>
    /\ DsonTurn(DsonElem(source, null, obj, keytypes, elems[idx]))

DsonSubscriptElem ==
    /\ pc = "jdson_loop" /\ idx <= Len(elems)
    /\ elems[idx] # <<>>
    /\ SubscriptSearch("jdson", elems[idx]).found
    /\ DsonTurn(DsonElem(source, null, obj, keytypes, elems[idx]))

DsonNameElem ==
    /\ pc = "jdson_loop" /\ idx <= Len(elems)
    /\ elems[idx] # <<>>
    /\ ~SubscriptSearch("jdson", elems[idx]).found
    /\ DsonTurn(DsonElem(source, null, obj, keytypes, elems[idx]))

DsonReturn ==
    /\ pc = "jdson_loop" /\ idx > Len(elems)
    /\ result' = obj
    /\ pc' = "done"
    /\ UNCHANGED <<inputs, null, sep, elems, idx, obj, raised>>

Next ==
    \/ CallJpath
    \/ CallJxpath
    \/ CallJdson
    \/ JpathEntry
    \/ JpathSkipElem
    \/ JpathSubscriptElem
    \/ JpathNameElem
    \/ JpathReturn
    \/ DsonEntry
    \/ DsonSkipElem
    \/ DsonSubscriptElem
    \/ DsonNameElem
    \/ DsonReturn

Spec == Init /\ [][Next]_vars

\* the same calls over the short element set
SpecShort == InitShort /\ [][Next]_vars

\* the machine and the functions Jpath, Jxpath, Jdson agree on every call
Outcome ==
    IF fn = "jpath" THEN Jpath(source, path, keytypes, argnull, argsep)
    ELSE IF fn = "jxpath" THEN Jxpath(source, path, keytypes, argnull)
    ELSE Jdson(source, path, keytypes, argnull)

StepwiseAgrees ==
    pc = "done" => /\ raised = Outcome.exc
                   /\ raised = "none" => result = Outcome.val

(***************************************************************************)
(* A path read as sequential indexing: each element is applied to the      *)
(* value the elements before it reached, starting at the tree.  This is    *)
(* the reading the properties below compare the functions with.            *)
(***************************************************************************)
IsScalar(v) == v.kind \in {"str", "int", "bool", "none"}

HasSubscripts(e) == SubscriptSearch("jpath", e).found

IsPureName(e) == e # <<>> /\ ~HasSubscripts(e)

Reached(v) == [ok |-> TRUE, val |-> v]

\* no value is reached; cur is the value the failing step was applied to
Unreached(cur) == [ok |-> FALSE, val |-> cur]

\* one indexing step: only a list or a dict can be indexed
Index(cur, key) ==
    IF IsContainer(cur) /\ GetItem(cur, key).exc = "none"
    THEN Reached(GetItem(cur, key).val)
    ELSE Unreached(cur)

\* a pure name: the first key type whose conversion and indexing both succeed
RECURSIVE NameStep(_, _, _)
NameStep(cur, kts, e) ==
    IF kts = <<>> THEN Unreached(cur)
    ELSE IF KeyOf(Head(kts), e).exc = "none" /\ Index(cur, KeyOf(Head(kts), e).val).ok
    THEN Index(cur, KeyOf(Head(kts), e).val)
    ELSE NameStep(cur, Tail(kts), e)

\* a bracket subscript read by its form: digits are an integer, a quoted
\* text is the string between the quotes
TypedSubscript(sc) ==
    IF \A i \in 1..Len(sc) : sc[i] \in DigitChars
    THEN IntV(DecVal(sc))
    ELSE StrV(SubSeq(sc, 2, Len(sc) - 1))

RECURSIVE SubscriptSteps(_, _)
SubscriptSteps(r, scs) ==
    IF ~r.ok \/ scs = <<>> THEN r
    ELSE SubscriptSteps(Index(r.val, TypedSubscript(Head(scs))), Tail(scs))

\* the root name of an element with subscripts, applied to cur
RootStep(cur, e) ==
    IF SubscriptSub("jpath", e) = <<>> THEN Reached(cur)
    ELSE Index(cur, StrV(SubscriptSub("jpath", e)))

ElemStep(cur, kts, e) ==
    IF e = <<>> THEN Reached(cur)
    ELSE IF HasSubscripts(e)
    THEN SubscriptSteps(RootStep(cur, e), BracketsSplit(SubscriptSearch("jpath", e).text))
    ELSE NameStep(cur, IF kts = <<>> THEN DefaultKeytypes ELSE kts, e)

RECURSIVE Walk(_, _, _)
Walk(r, kts, es) ==
    IF ~r.ok \/ es = <<>> THEN r
    ELSE Walk(ElemStep(r.val, kts, Head(es)), kts, Tail(es))

\* the value the first n elements of the call reach
Before(n) == Walk(Reached(source), keytypes, SubSeq(elems, 1, n))

\* every value stored in v, v included
RECURSIVE Values(_)
Values(v) ==
    {v} \cup (IF v.kind = "list" THEN UNION {Values(v.l[i]) : i \in 1..Len(v.l)}
              ELSE IF v.kind = "dict" THEN UNION {Values(v.d[k]) : k \in DOMAIN v.d}
              ELSE {})

\* the sentinel equals no value stored in the tree
NoCollision == \A v \in Values(source) : ~PyEq(v, null)

JpathDone == pc = "done" /\ fn = "jpath" /\ raised = "none"

(***************************************************************************)
(* Properties                                                              *)
(***************************************************************************)

\* C1: when a pure-name element cannot be resolved against the container
\* the elements before it reached, under any key type, jpath returns the
\* sentinel, whatever elements follow it.
C1_UnresolvedNameFails ==
    JpathDone =>
        \A i \in 1..Len(elems) :
            ( /\ Before(i - 1).ok
              /\ IsContainer(Before(i - 1).val)
              /\ IsPureName(elems[i])
              /\ ~ElemStep(Before(i - 1).val, keytypes, elems[i]).ok )
            => result = null

\* C2: a pure-name element advances the cursor by exactly one indexing step,
\* with the first key type that converts and indexes; so a path of pure names
\* that all resolve returns the value sequential indexing reaches (for a
\* digit name k on an object with the string key k: the value under k).
C2_FirstKeyTypeWins ==
    ( /\ JpathDone
      /\ IsContainer(null)
      /\ NoCollision
      /\ \A i \in 1..Len(elems) : elems[i] = <<>> \/ IsPureName(elems[i])
      /\ Before(Len(elems)).ok )
    => result = Before(Len(elems)).val

\* C3: when an element with bracket subscripts fails on a container (a
\* missing map key, an index out of range, a quoted subscript on an array, a
\* root name that does not resolve), jpath returns the sentinel.
C3_FailedSubscriptFails ==
    JpathDone =>
        \A i \in 1..Len(elems) :
            ( /\ Before(i - 1).ok
              /\ IsContainer(Before(i - 1).val)
              /\ HasSubscripts(elems[i])
              /\ ~ElemStep(Before(i - 1).val, keytypes, elems[i]).ok
              /\ IsContainer(ElemStep(Before(i - 1).val, keytypes, elems[i]).val) )
            => result = null

\* C4: with a sentinel equal to no value stored in the tree, a path whose
\* steps reach a scalar and then holds one more non-empty element returns
\* the sentinel.
C4_ScalarThenMoreFails ==
    (JpathDone /\ NoCollision) =>
        \A i \in 1..Len(elems) :
            ( /\ \E j \in 1..(i - 1) : elems[j] # <<>>
              /\ Before(i - 1).ok
              /\ IsScalar(Before(i - 1).val)
              /\ elems[i] # <<>> )
            => result = null

\* C5: jxpath(tree, p, keytypes, null) returns what
\* jpath(tree, p', keytypes, null, sep='->') returns, p' being p with each
\* '/' replaced by '->'.
C5_JxpathIsJpathWithSlash ==
    (pc = "done" /\ fn = "jxpath") =>
        [exc |-> raised, val |-> result]
            = Jpath(source, StrJoin(StrSplit(path, Slash), Arrow), keytypes, argnull, Arrow)

\* C6: for a simple identifier k the paths P->k, P['k'] and P["k"] return
\* the same result, whatever the prefix P (stated for calls that pass the
\* default sentinel and for prefixes that hold no bare number, whose root
\* reading as a name differs from its reading as an index).
C6_QuotedAndArrowAgree ==
    (JpathDone /\ argsep = Arrow /\ argnull = Nil /\ Len(path) >= 3) =>
        \A k \in {"k", "m"} :
            ( /\ SubSeq(path, Len(path) - 2, Len(path)) = <<"-", ">", k>>
              /\ \A i \in 1..(Len(elems) - 1) : PyInt(elems[i]).exc # "none" ) =>
                LET P == SubSeq(path, 1, Len(path) - 3)
                IN  /\ Ok(result) = Jpath(source, P \o <<"[", "'", k, "'", "]">>,
                                          keytypes, argnull, Arrow)
                    /\ Ok(result) = Jpath(source, P \o <<"[", "\"", k, "\"", "]">>,
                                          keytypes, argnull, Arrow)

\* C7: [n] is the integer n and ['n'], ["n"] the string n: when the cursor
\* is the value the elements so far reached and the next element applies a
\* single subscript to an array, a digit subscript within the length moves
\* the cursor to that element and a quoted one ends the call with the
\* sentinel.
C7_SubscriptTyping ==
    [][ ( /\ pc = "jpath_loop"
          /\ idx <= Len(elems)
          /\ \E j \in 1..(idx - 1) : elems[j] # <<>>
          /\ Before(idx - 1).ok
          /\ Before(idx - 1).val = obj
          /\ HasSubscripts(elems[idx])
          /\ Len(BracketsSplit(SubscriptSearch("jpath", elems[idx]).text)) = 1
          /\ RootStep(obj, elems[idx]).ok
          /\ RootStep(obj, elems[idx]).val.kind = "list" )
        => LET sc  == BracketsSplit(SubscriptSearch("jpath", elems[idx]).text)[1]
               arr == RootStep(obj, elems[idx]).val.l
           IN  IF sc[1] \in QuoteChars
               THEN pc' = "done" /\ result' = null
               ELSE DecVal(sc) < Len(arr)
                        => pc' = "jpath_loop" /\ obj' = arr[DecVal(sc) + 1]
      ]_vars

\* C8: jpath and jxpath return a value on every call: no error escapes.
C8_NeverRaises == (pc = "done" /\ fn \in {"jpath", "jxpath"}) => raised = "none"

\* C9: for a path whose steps all resolve, jdson returns the value the
\* steps reach.
C9_JdsonReturnsElement ==
    ( /\ pc = "done"
      /\ fn = "jdson"
      /\ Before(Len(elems)).ok )
    => result = Before(Len(elems)).val

\* C10: the empty path returns the tree itself, from jpath, jxpath and jdson.
C10_EmptyPathReturnsTree ==
    (pc = "done" /\ path = <<>>) =>
        /\ raised = "none"
        /\ result = source
        /\ ~PyEq(source, null) => ~PyEq(result, null)

\* a call of jdson with the empty path on a scalar tree has returned
C10_Witness ==
    /\ pc = "done"
    /\ path = <<>>
    /\ fn = "jdson"
    /\ IsScalar(source)
    /\ result = source

\* an element of the paths of C11: a pure name that is not a number, or
\* bracket subscripts behind a root name that is empty or not a number
IsNameOrSubscripts(e) ==
    /\ e # <<>>
    /\ PyInt(IF HasSubscripts(e) THEN SubscriptSub("jpath", e) ELSE e).exc # "none"

\* C11: only the first non-empty element is resolved against the tree and
\* every later one against the cursor; so for every tree, every sentinel the
\* caller passes (a container or not, equal to a value stored in the tree or
\* not) and every path of non-numeric names and bracket subscripts whose
\* steps all succeed one after another from the root, jpath returns the
\* value that sequential indexing reaches.
C11_SentinelOnlyMarksStart ==
    ( /\ JpathDone
      /\ elems # <<>>
      /\ \A i \in 1..Len(elems) : IsNameOrSubscripts(elems[i])
      /\ Before(Len(elems)).ok )
    => result = Before(Len(elems)).val

====
